---- MODULE Spec2Model ----
(***************************************************************************)
(* Model of the humanized move-selection policy of chess_bot               *)
(* (src/chess_bot/src/humanizer.py, class Humanizer).                      *)
(*                                                                         *)
(* A candidate list is a sequence of MoveEvaluation records, best first,   *)
(* as EngineWrapper.analyze returns it.  Every public method of Humanizer  *)
(* is one action: the action picks the argument and the values the random  *)
(* source hands out during the call, runs the whole method and records     *)
(* what it returned and what it drew.                                      *)
(*                                                                         *)
(* Spec is the Humanizer; SpecEngine is the EngineWrapper                  *)
(* (src/chess_bot/src/engine_wrapper.py): score normalization and analyze. *)
(* SpecSeeded is the Humanizer drawing from numpy's global generator, which *)
(* np.random.seed resets; SpecGame is the GameController                   *)
(* (src/chess_bot/src/game_controller.py): its loop and _make_move.        *)
(***************************************************************************)
EXTENDS Integers, Sequences, FiniteSets, TLC

\* Longest candidate list that is enumerated.
MaxLen == 3

\* chess.Move objects are opaque identifiers 1..MaxLen; Python's None is 0.
None == 0
Moves == 1..MaxLen

\* Centipawn scores handed to the policy: plain scores and the mate-encoded
\* values 10000 - 100*m / -10000 - 100*m of EngineWrapper._score_to_centipawns.
Scores == {-9900, -400, -300, 0, 100, 200, 500, 9900}

\* Values of the configuration fields (Config defaults are 300 / 100 / 300).
TargetEloAdvantages == {100, 300}
EloStdDevs == {0, 100}
ObviousMoveThresholds == {100, 300}
\* min_move_time / max_move_time in tenths of a second (defaults 0.5 / 2.0).
MinMoveTimes == {5, 20}
MaxMoveTimes == {5, 20}

\* Longest list engine.analyse returns: min(self.multipv, legal moves).
MaxMultiPV == 3

\* random.random() hands out k / RandomSteps for k in 0..RandomSteps - 1.
RandomSteps == 3

\* Values np.random.normal can hand out when the standard deviation is
\* positive, in HALF centipawns (so -1 is -0.5 and 361 is 180.5).
RawNormalDraws == {-401, -1, 361, 400, 600, 1001}

VARIABLES
    self,               \* the Humanizer object: its five configuration fields
    op,                 \* the method called last ("init" before any call)
    evaluations,        \* the argument of that call
    ret,                \* what the call returned
    branch,             \* the return statement of select_move that was taken
    setpoints,          \* the setpoints sampled during the call, in order
    acceptable_moves,   \* select_move's local list acceptable_moves
    choices,            \* the indexes np.random.choice handed out in the call
    raised,             \* the exception the call ended with ("" for none)
    normal_draws,       \* the values np.random.normal handed out in the call
    delays,             \* the delays random.uniform handed out in the call
    slept,              \* the durations passed to time.sleep in the call
    engine,             \* EngineWrapper.engine: TRUE when the process runs
    board,              \* the chess.Board argument of the engine call
    pov,                \* the score argument of _score_to_centipawns
    info,               \* what engine.analyse returned during analyze
    passed,             \* the list object of the call as the caller built it
    np_random,          \* the state of numpy's global generator
    seeded,             \* the seed np.random.seed got just before the call
    first_run,          \* an earlier seeded call that the caller kept
    pc,                 \* where GameController.run is
    page,               \* the position the page shows: plies played so far
    current_board,      \* GameController.current_board
    last_move_count,    \* GameController.last_move_count
    events              \* what the controller did during the call, in order

humanizer_vars == <<evaluations, branch, setpoints, acceptable_moves, choices, normal_draws, delays, slept>>

seeded_vars == <<np_random, seeded, first_run>>

game_vars == <<pc, page, current_board, last_move_count, events>>

engine_vars == <<engine, board, pov, info>>

vars == <<self, op, ret, raised, passed, humanizer_vars, engine_vars, seeded_vars, game_vars>>

-----------------------------------------------------------------------------
\* Inputs

\* MoveEvaluation(move, score)
MoveEvaluation(move, score) == [move |-> move, score |-> score]

\* Non-increasing score sequences of length n.
RECURSIVE SortedScores(_)
SortedScores(n) ==
    IF n = 0 THEN {<<>>}
    ELSE {Append(s, x) : s \in SortedScores(n - 1), x \in Scores} \cap
         {s \in [1..n -> Scores] : \A i \in 1..(n - 1) : s[i] >= s[i + 1]}

\* The candidate lists analyze can return: sorted best first (the sort of
\* analyze), one entry per distinct move.  The moves of a list are
\* first, first+1, ... taken cyclically in Moves.
CandidateLists ==
    UNION {{[i \in 1..n |->
                MoveEvaluation(((first + i - 2) % MaxLen) + 1, s[i])] :
              s \in SortedScores(n), first \in Moves} : n \in 0..MaxLen}

\* int(x) of a value given in half units: truncation towards zero.
int(half) == IF half >= 0 THEN half \div 2 ELSE -((-half) \div 2)

\* np.random.normal(loc, scale): exactly loc when scale is 0, any real
\* otherwise.  Values are in half centipawns.
NormalDraws(loc, scale) ==
    IF scale = 0 THEN {2 * loc} ELSE RawNormalDraws

max(a, b) == IF a >= b THEN a ELSE b

-----------------------------------------------------------------------------
\* Humanizer

\* Humanizer.__init__
Humanizer(target_elo_advantage, elo_std_dev, obvious_move_threshold, min_move_time, max_move_time) ==
    [target_elo_advantage   |-> target_elo_advantage,
     elo_std_dev            |-> elo_std_dev,
     obvious_move_threshold |-> obvious_move_threshold,
     min_move_time          |-> min_move_time,
     max_move_time          |-> max_move_time]

SampleCpSetpointNoClamp(this, draw) == int(draw)

\* Humanizer._sample_cp_setpoint, draw being the value of np.random.normal.
_sample_cp_setpoint(this, draw) ==
    LET cp_setpoint == int(draw)
    IN  max(cp_setpoint, 0)

IsObviousSecondMissing(this, evals) ==
    IF Len(evals) < 1 THEN TRUE
    ELSE IF Len(evals) < 2 THEN FALSE
    ELSE LET best_score == evals[1].score
             second_best_score == evals[2].score
         IN  IF best_score - second_best_score > this.obvious_move_threshold
             THEN TRUE
             ELSE IF second_best_score < -this.obvious_move_threshold
                  THEN TRUE
                  ELSE FALSE

IsObviousGapReversed(this, evals) ==
    IF Len(evals) < 2 THEN TRUE
    ELSE LET best_score == evals[1].score
             second_best_score == evals[2].score
         IN  IF second_best_score - best_score > this.obvious_move_threshold
             THEN TRUE
             ELSE IF second_best_score < -this.obvious_move_threshold
                  THEN TRUE
                  ELSE FALSE

IsObviousNoBlunderRule(this, evals) ==
    IF Len(evals) < 2 THEN TRUE
    ELSE LET best_score == evals[1].score
             second_best_score == evals[2].score
         IN  IF best_score - second_best_score > this.obvious_move_threshold
             THEN TRUE
             ELSE FALSE

IsObviousAgainstLast(this, evals) ==
    IF Len(evals) < 2 THEN TRUE
    ELSE LET best_score == evals[1].score
             second_best_score == evals[Len(evals)].score
         IN  IF best_score - second_best_score > this.obvious_move_threshold
             THEN TRUE
             ELSE IF second_best_score < -this.obvious_move_threshold
                  THEN TRUE
                  ELSE FALSE

\* Humanizer._is_obvious_move
_is_obvious_move(this, evals) ==
    IF Len(evals) < 2 THEN TRUE
    ELSE LET best_score == evals[1].score
             second_best_score == evals[2].score
         IN  IF best_score - second_best_score > this.obvious_move_threshold
             THEN TRUE
             ELSE IF second_best_score < -this.obvious_move_threshold
                  THEN TRUE
                  ELSE FALSE

AcceptableInclusiveDrop(this, evals, cp_setpoint) ==
    LET best_score == evals[1].score
        Keep(eval_move) ==
            LET score_drop == best_score - eval_move.score
            IN  eval_move.score >= cp_setpoint \/ score_drop <= this.elo_std_dev
    IN  SelectSeq(evals, Keep)

AcceptableStrictSetpoint(this, evals, cp_setpoint) ==
    LET best_score == evals[1].score
        Keep(eval_move) ==
            LET score_drop == best_score - eval_move.score
            IN  eval_move.score > cp_setpoint \/ score_drop < this.elo_std_dev
    IN  SelectSeq(evals, Keep)

\* The loop of select_move that builds acceptable_moves (lines 97-109).
AcceptableMoves(this, evals, cp_setpoint) ==
    LET best_score == evals[1].score
        Keep(eval_move) ==
            LET score_drop == best_score - eval_move.score
            IN  eval_move.score >= cp_setpoint \/ score_drop < this.elo_std_dev
    IN  SelectSeq(evals, Keep)

\* The outcome of one call of select_move.
Outcome(r, b, sp, acc, ch, exc) ==
    [ret |-> r, branch |-> b, setpoints |-> sp, acceptable_moves |-> acc,
     choices |-> ch, raised |-> exc]

\* np.random.choice(n, p = probabilities): the weights np.exp(score / 200.0)
\* are strictly positive for every score in Scores, so every index has a
\* non-zero probability.  Indexes are 1-based here.
ChoiceRange(acceptable) == 1..Len(acceptable)

\* The indexes the weighted draw of select_move(evals) can hand out when the
\* setpoint draw is draw; {1} stands for "no draw" in the other branches.
SelectionRange(this, evals, draw) ==
    IF Len(evals) = 0 \/ _is_obvious_move(this, evals) THEN {1}
    ELSE LET acc == AcceptableMoves(this, evals, _sample_cp_setpoint(this, draw))
         IN  IF Len(acc) = 0 THEN {1} ELSE ChoiceRange(acc)

SelectMoveNoEmptyCheck(this, evals, draw, selected_idx) ==
    IF _is_obvious_move(this, evals)
    THEN IF Len(evals) = 0
         THEN Outcome(None, "obvious", <<>>, <<>>, <<>>, "IndexError")
         ELSE Outcome(evals[1].move, "obvious", <<>>, <<>>, <<>>, "")
    ELSE LET cp_setpoint == _sample_cp_setpoint(this, draw)
             acceptable == AcceptableMoves(this, evals, cp_setpoint)
         IN  IF Len(acceptable) = 0
             THEN Outcome(evals[1].move, "fallback", <<cp_setpoint>>,
                          acceptable, <<>>, "")
             ELSE Outcome(acceptable[selected_idx].move, "weighted",
                          <<cp_setpoint>>, acceptable, <<selected_idx>>, "")

SelectMoveSampleFirst(this, evals, draw, selected_idx) ==
    IF Len(evals) = 0
    THEN Outcome(None, "empty", <<>>, <<>>, <<>>, "")
    ELSE LET cp_setpoint == _sample_cp_setpoint(this, draw)
             acceptable == AcceptableMoves(this, evals, cp_setpoint)
         IN  IF _is_obvious_move(this, evals)
             THEN Outcome(evals[1].move, "obvious", <<cp_setpoint>>, <<>>,
                          <<>>, "")
             ELSE IF Len(acceptable) = 0
                  THEN Outcome(evals[1].move, "fallback", <<cp_setpoint>>,
                               acceptable, <<>>, "")
                  ELSE Outcome(acceptable[selected_idx].move, "weighted",
                               <<cp_setpoint>>, acceptable, <<selected_idx>>,
                               "")

SelectMoveFallbackNone(this, evals, draw, selected_idx) ==
    IF Len(evals) = 0
    THEN Outcome(None, "empty", <<>>, <<>>, <<>>, "")
    ELSE IF _is_obvious_move(this, evals)
    THEN Outcome(evals[1].move, "obvious", <<>>, <<>>, <<>>, "")
    ELSE LET cp_setpoint == _sample_cp_setpoint(this, draw)
             acceptable == AcceptableMoves(this, evals, cp_setpoint)
         IN  IF Len(acceptable) = 0
             THEN Outcome(None, "fallback", <<cp_setpoint>>, acceptable,
                          <<>>, "")
             ELSE Outcome(acceptable[selected_idx].move, "weighted",
                          <<cp_setpoint>>, acceptable, <<selected_idx>>, "")

SelectMoveFallbackLast(this, evals, draw, selected_idx) ==
    IF Len(evals) = 0
    THEN Outcome(None, "empty", <<>>, <<>>, <<>>, "")
    ELSE IF _is_obvious_move(this, evals)
    THEN Outcome(evals[1].move, "obvious", <<>>, <<>>, <<>>, "")
    ELSE LET cp_setpoint == _sample_cp_setpoint(this, draw)
             acceptable == AcceptableMoves(this, evals, cp_setpoint)
         IN  IF Len(acceptable) = 0
             THEN Outcome(evals[Len(evals)].move, "fallback", <<cp_setpoint>>,
                          acceptable, <<>>, "")
             ELSE Outcome(acceptable[selected_idx].move, "weighted",
                          <<cp_setpoint>>, acceptable, <<selected_idx>>, "")

\* Humanizer.select_move, draw being the value np.random.normal hands out and
\* selected_idx the index np.random.choice hands out (when they are asked).
select_move(this, evals, draw, selected_idx) ==
    IF Len(evals) = 0
    THEN Outcome(None, "empty", <<>>, <<>>, <<>>, "")
    ELSE IF _is_obvious_move(this, evals)
    THEN Outcome(evals[1].move, "obvious", <<>>, <<>>, <<>>, "")
    ELSE LET cp_setpoint == _sample_cp_setpoint(this, draw)
             acceptable == AcceptableMoves(this, evals, cp_setpoint)
         IN  IF Len(acceptable) = 0
             THEN Outcome(evals[1].move, "fallback", <<cp_setpoint>>,
                          acceptable, <<>>, "")
             ELSE Outcome(acceptable[selected_idx].move, "weighted",
                          <<cp_setpoint>>, acceptable, <<selected_idx>>, "")

\* Humanizer.should_move: the outcome of the select_move call it makes, with
\* the pair it returns.
should_move(this, evals, draw, selected_idx) ==
    IF Len(evals) = 0
    THEN Outcome(<<FALSE, None>>, "not_called", <<>>, <<>>, <<>>, "")
    ELSE LET o == select_move(this, evals, draw, selected_idx)
             move == o.ret
         IN  [o EXCEPT !.ret = <<move # None, move>>]

UniformScaledByMax(a, b, k) == a + (b * k) \div RandomSteps

\* random.uniform(a, b) is a + (b - a) * random.random(); k / RandomSteps is
\* the value of random.random() (k = RandomSteps is the rounding of the
\* product up to the end point).  Times are in tenths of a second.
uniform(a, b, k) == a + ((b - a) * k) \div RandomSteps

\* The outcome of one call of add_realistic_delay.
DelayOutcome(r, d, sl) == [ret |-> r, delays |-> d, slept |-> sl]

AddRealisticDelayNoSleep(this, k) ==
    LET delay == uniform(this.min_move_time, this.max_move_time, k)
    IN  DelayOutcome(delay, <<delay>>, <<>>)

\* Humanizer.add_realistic_delay, k / RandomSteps being the value
\* random.random() hands out: the delay is sampled, then slept.
add_realistic_delay(this, k) ==
    LET delay == uniform(this.min_move_time, this.max_move_time, k)
    IN  DelayOutcome(None, <<delay>>, <<delay>>)

-----------------------------------------------------------------------------
\* EngineWrapper (src/chess_bot/src/engine_wrapper.py)

\* chess.WHITE / chess.BLACK
WHITE == TRUE
BLACK == FALSE

\* An Optional value is a set of at most one element: Nothing is None.
Nothing == {}
Some(x) == {x}

\* chess.Board as the wrapper reads it: board.turn and board.is_game_over().
Board(turn, game_over) == [turn |-> turn, is_game_over |-> game_over]

\* chess.engine.Cp(c) and chess.engine.Mate(m), scores relative to a side.
Cp(c) == [is_mate |-> FALSE, value |-> c]
Mate(m) == [is_mate |-> TRUE, value |-> m]

\* chess.engine.PovScore(relative, turn) and PovScore.white(): the relative
\* score when turn is White, its negation otherwise.
PovScore(relative, turn) == [relative |-> relative, turn |-> turn]
white(p) ==
    IF p.turn = WHITE THEN p.relative
    ELSE [p.relative EXCEPT !.value = -p.relative.value]

\* Mate distances and centipawn values an engine reports.
MateDistances == {-101, -100, -10, -9, -1, 1, 9, 10, 100, 101}
CpValues == {-9000, -150, 0, 150, 9000}

\* The score arguments of _score_to_centipawns; Mate(0) is the score of a
\* position in which the side to move is checkmated.
EngineScores ==
    {PovScore(Cp(c), t) : c \in CpValues, t \in {WHITE, BLACK}} \cup
    {PovScore(Mate(m), t) : m \in MateDistances \cup {0}, t \in {WHITE, BLACK}}

Boards == {Board(t, g) : t \in {WHITE, BLACK}, g \in BOOLEAN}

ScoreToCentipawnsFlipWhite(sc, brd) ==
    LET pov_score == white(sc)
    IN  IF pov_score.is_mate
        THEN LET mate_in == pov_score.value
                 cp0 == IF mate_in > 0 THEN 10000 - mate_in * 100
                        ELSE -10000 - mate_in * 100
                 cp == IF brd.turn = WHITE THEN -cp0 ELSE cp0
             IN  <<cp, TRUE, Some(mate_in)>>
        ELSE LET cp0 == pov_score.value
                 cp == IF brd.turn = WHITE THEN -cp0 ELSE cp0
             IN  <<cp, FALSE, Nothing>>

\* EngineWrapper._score_to_centipawns: the tuple (cp, is_mate, mate_in).
_score_to_centipawns(sc, brd) ==
    LET pov_score == white(sc)
    IN  IF pov_score.is_mate
        THEN LET mate_in == pov_score.value
                 cp0 == IF mate_in > 0 THEN 10000 - mate_in * 100
                        ELSE -10000 - mate_in * 100
                 cp == IF brd.turn = BLACK THEN -cp0 ELSE cp0
             IN  <<cp, TRUE, Some(mate_in)>>
        ELSE LET cp0 == pov_score.value
                 cp == IF brd.turn = BLACK THEN -cp0 ELSE cp0
             IN  <<cp, FALSE, Nothing>>

\* MoveEvaluation(move, score, is_mate, mate_in) as analyze builds it.
MoveEvaluationOf(move, cp, is_mate, mate_in) == [move |-> move, score |-> cp, is_mate |-> is_mate, mate_in |-> mate_in]

\* The element of an Optional value that is not None.
The(opt) == CHOOSE x \in opt : TRUE

\* One info dictionary of engine.analyse: the keys 'pv' and 'score' may be
\* missing, the principal variation may be empty.
PvInfo(pv, sc) == [pv |-> pv, score |-> sc]

\* What engine.analyse returns: a list of info dictionaries, or one
\* dictionary (held in dicts[1]).
InfoList(items) == [is_list |-> TRUE, dicts |-> items]
InfoDict(d) == [is_list |-> FALSE, dicts |-> <<d>>]

\* Relative scores of the lines of an analysis of a position that is not
\* over (Mate(0) cannot occur there).
LineScores == {Cp(-150), Cp(150), Mate(1), Mate(3), Mate(-10)}

\* The shapes of an info dictionary: the key 'pv' missing, an empty
\* principal variation or one with a move; the key 'score' missing or a
\* relative score.
LineShapes ==
    {"no_pv", "empty_pv", "pv"} \X
    ({Nothing} \cup {Some(r) : r \in LineScores})

\* The info dictionary of line i with the given shape, turn being the side
\* to move; the first move of line i is move i.
Line(i, shape, turn) ==
    PvInfo(IF shape[1] = "no_pv" THEN Nothing
           ELSE IF shape[1] = "empty_pv" THEN Some(<<>>) ELSE Some(<<i>>),
           {PovScore(r, turn) : r \in shape[2]})

\* What engine.analyse(board, limit, multipv = n) returns for the given
\* shapes of its n >= 1 lines, as a list or (n = 1) as one dictionary.
AnalyseResult(n, shapes, is_list, turn) ==
    LET lines == [i \in 1..n |-> Line(i, shapes[i], turn)]
    IN  IF is_list THEN InfoList(lines) ELSE InfoDict(lines[1])

\* The loop of analyze over the info dictionaries (lines 117-134).
RECURSIVE Evaluations(_, _)
Evaluations(lines, brd) ==
    IF Len(lines) = 0 THEN <<>>
    ELSE LET pv_info == lines[1]
             rest == Evaluations(Tail(lines), brd)
         IN  IF pv_info.pv = Nothing \/ Len(The(pv_info.pv)) = 0 THEN rest
             ELSE IF pv_info.score = Nothing THEN rest
             ELSE LET t == _score_to_centipawns(The(pv_info.score), brd)
                  IN  <<MoveEvaluationOf(The(pv_info.pv)[1], t[1], t[2], t[3])>>
                      \o rest

\* list.sort(key = score, reverse = True): stable, highest score first.
RECURSIVE sort(_)
sort(evals) ==
    IF Len(evals) = 0 THEN <<>>
    ELSE LET e == evals[Len(evals)]
             front == sort(SubSeq(evals, 1, Len(evals) - 1))
             k == Cardinality({i \in 1..Len(front) : front[i].score >= e.score})
         IN  SubSeq(front, 1, k) \o <<e>> \o SubSeq(front, k + 1, Len(front))

\* The outcome of one call of analyze: inf is what engine.analyse returned,
\* Nothing when the engine was not run.
AnalyzeOutcome(r, exc, inf) == [ret |-> r, raised |-> exc, info |-> inf]

AnalyzeNoGameOverCheck(eng, brd, raw) ==
    IF ~eng THEN AnalyzeOutcome(<<>>, "RuntimeError", Nothing)
    ELSE LET lines == IF raw.is_list THEN raw.dicts ELSE <<raw.dicts[1]>>
         IN  AnalyzeOutcome(sort(Evaluations(lines, brd)), "", Some(raw))

AnalyzeNoSort(eng, brd, raw) ==
    IF ~eng THEN AnalyzeOutcome(<<>>, "RuntimeError", Nothing)
    ELSE IF brd.is_game_over THEN AnalyzeOutcome(<<>>, "", Nothing)
    ELSE LET lines == IF raw.is_list THEN raw.dicts ELSE <<raw.dicts[1]>>
         IN  AnalyzeOutcome(Evaluations(lines, brd), "", Some(raw))

\* EngineWrapper.analyze, raw being what engine.analyse returns if it is run.
analyze(eng, brd, raw) ==
    IF ~eng THEN AnalyzeOutcome(<<>>, "RuntimeError", Nothing)
    ELSE IF brd.is_game_over THEN AnalyzeOutcome(<<>>, "", Nothing)
    ELSE LET lines == IF raw.is_list THEN raw.dicts ELSE <<raw.dicts[1]>>
         IN  AnalyzeOutcome(sort(Evaluations(lines, brd)), "", Some(raw))

-----------------------------------------------------------------------------
\* The state machine

\* No call of the Humanizer is recorded.
HumanizerIdle ==
    /\ evaluations = <<>>
    /\ branch = "not_called"
    /\ setpoints = <<>>
    /\ acceptable_moves = <<>>
    /\ choices = <<>>
    /\ normal_draws = <<>>
    /\ delays = <<>>
    /\ slept = <<>>
    /\ passed = <<>>

\* No call of the EngineWrapper is recorded.
EngineIdle ==
    /\ board = Board(WHITE, FALSE)
    /\ pov = PovScore(Cp(0), WHITE)
    /\ info = Nothing

\* np.random.seed has not been called and no result is kept.  Where the
\* draws are chosen freely the generator is not consulted and stays as it is.
SeededIdle ==
    /\ seeded = Nothing
    /\ first_run = Nothing

\* GameController.__init__ (lines 47-49); run has not been called, the page
\* shows the starting position.
GameIdle ==
    /\ pc = "constructed"
    /\ page = 0
    /\ current_board = Nothing
    /\ last_move_count = 0
    /\ events = <<>>

Init ==
    /\ self \in {Humanizer(t, d, o, mn, mx) :
                    t \in TargetEloAdvantages, d \in EloStdDevs,
                    o \in ObviousMoveThresholds,
                    mn \in MinMoveTimes, mx \in MaxMoveTimes}
    /\ op = "init"
    /\ ret = None
    /\ raised = ""
    /\ HumanizerIdle
    /\ engine = FALSE
    /\ EngineIdle
    /\ np_random = 0
    /\ SeededIdle
    /\ GameIdle

\* A call of _is_obvious_move(evals).
IsObviousMoveCall ==
    \E evals \in CandidateLists :
        /\ op = "init"
        /\ op' = "_is_obvious_move"
        /\ evaluations' = evals
        /\ passed' = evals
        /\ ret' = _is_obvious_move(self, evals)
        /\ branch' = "not_called"
        /\ setpoints' = <<>>
        /\ acceptable_moves' = <<>>
        /\ choices' = <<>>
        /\ raised' = ""
        /\ normal_draws' = <<>>
        /\ delays' = <<>>
        /\ slept' = <<>>
        /\ UNCHANGED <<self, engine_vars, seeded_vars, game_vars>>

ReturnsNarrowingInPlace(name, evals, draw, o) ==
    /\ op' = name
    /\ evaluations' = IF o.branch = "weighted" THEN o.acceptable_moves
                      ELSE evals
    /\ passed' = evals
    /\ ret' = o.ret
    /\ branch' = o.branch
    /\ setpoints' = o.setpoints
    /\ acceptable_moves' = o.acceptable_moves
    /\ choices' = o.choices
    /\ raised' = o.raised
    /\ normal_draws' = [i \in 1..Len(o.setpoints) |-> draw]
    /\ delays' = <<>>
    /\ slept' = <<>>
    /\ UNCHANGED <<self, engine_vars, game_vars>>

\* The state after a call whose outcome is o, draw being the value
\* np.random.normal hands out if a setpoint is sampled.  The methods assign
\* no field of self and build acceptable_moves as a new list: the list the
\* caller passed is afterwards what it was.
Returns(name, evals, draw, o) ==
    /\ op' = name
    /\ evaluations' = evals
    /\ passed' = evals
    /\ ret' = o.ret
    /\ branch' = o.branch
    /\ setpoints' = o.setpoints
    /\ acceptable_moves' = o.acceptable_moves
    /\ choices' = o.choices
    /\ raised' = o.raised
    /\ normal_draws' = [i \in 1..Len(o.setpoints) |-> draw]
    /\ delays' = <<>>
    /\ slept' = <<>>
    /\ UNCHANGED <<self, engine_vars, game_vars>>

\* A call of _sample_cp_setpoint().
SampleCpSetpointCall ==
    /\ op = "init"
    /\ \E draw \in NormalDraws(self.target_elo_advantage, self.elo_std_dev) :
        LET cp_setpoint == _sample_cp_setpoint(self, draw)
        IN  Returns("_sample_cp_setpoint", <<>>, draw,
                    Outcome(cp_setpoint, "not_called", <<cp_setpoint>>, <<>>,
                            <<>>, ""))
    /\ UNCHANGED seeded_vars

\* A call of select_move(evals).
SelectMoveCall ==
    /\ op = "init"
    /\ \E evals \in CandidateLists :
      \E draw \in NormalDraws(self.target_elo_advantage, self.elo_std_dev) :
        \E selected_idx \in SelectionRange(self, evals, draw) :
            Returns("select_move", evals, draw,
                    select_move(self, evals, draw, selected_idx))
    /\ UNCHANGED seeded_vars

\* A call of should_move(evals).
ShouldMoveCall ==
    /\ op = "init"
    /\ \E evals \in CandidateLists :
      \E draw \in NormalDraws(self.target_elo_advantage, self.elo_std_dev) :
        \E selected_idx \in SelectionRange(self, evals, draw) :
            Returns("should_move", evals, draw,
                    should_move(self, evals, draw, selected_idx))
    /\ UNCHANGED seeded_vars

\* A call of add_realistic_delay().
AddRealisticDelayCall ==
    /\ op = "init"
    /\ \E k \in 0..RandomSteps :
        LET o == add_realistic_delay(self, k)
        IN  /\ op' = "add_realistic_delay"
            /\ ret' = o.ret
            /\ delays' = o.delays
            /\ slept' = o.slept
            /\ raised' = ""
            /\ UNCHANGED <<self, evaluations, branch, setpoints,
                           acceptable_moves, choices, normal_draws,
                           engine_vars, passed, seeded_vars, game_vars>>

\* The caller is done with the result of the call: nothing of it is kept,
\* the object is ready for the next call.
Discard ==
    /\ op # "init"
    /\ op' = "init"
    /\ ret' = None
    /\ raised' = ""
    /\ evaluations' = <<>>
    /\ branch' = "not_called"
    /\ setpoints' = <<>>
    /\ acceptable_moves' = <<>>
    /\ choices' = <<>>
    /\ normal_draws' = <<>>
    /\ delays' = <<>>
    /\ slept' = <<>>
    /\ board' = Board(WHITE, FALSE)
    /\ pov' = PovScore(Cp(0), WHITE)
    /\ info' = Nothing
    /\ passed' = <<>>
    /\ seeded' = Nothing
    /\ events' = <<>>
    /\ UNCHANGED <<self, engine, np_random, first_run, pc, page,
                   current_board, last_move_count>>

Next ==
    \/ IsObviousMoveCall
    \/ SampleCpSetpointCall
    \/ SelectMoveCall
    \/ ShouldMoveCall
    \/ AddRealisticDelayCall
    \/ Discard

Spec == Init /\ [][Next]_vars

\* The engine wrapper on its own: the Humanizer has the Config defaults and
\* is not called.
InitEngine ==
    /\ self = Humanizer(300, 100, 300, 5, 20)
    /\ op = "init"
    /\ ret = None
    /\ raised = ""
    /\ HumanizerIdle
    /\ engine = FALSE
    /\ EngineIdle
    /\ np_random = 0
    /\ SeededIdle
    /\ GameIdle

\* EngineWrapper.start
EngineStart ==
    /\ op = "init"
    /\ engine = FALSE
    /\ engine' = TRUE
    /\ UNCHANGED <<self, op, ret, raised, humanizer_vars, board, pov, info,
                   passed, seeded_vars, game_vars>>

\* EngineWrapper.quit
EngineQuit ==
    /\ op = "init"
    /\ engine # FALSE
    /\ engine' = FALSE
    /\ UNCHANGED <<self, op, ret, raised, humanizer_vars, board, pov, info,
                   passed, seeded_vars, game_vars>>

\* A call of _score_to_centipawns(sc, brd).
ScoreToCentipawnsCall ==
    /\ op = "init"
    /\ \E sc \in EngineScores, brd \in Boards :
        /\ op' = "_score_to_centipawns"
        /\ pov' = sc
        /\ board' = brd
        /\ ret' = _score_to_centipawns(sc, brd)
        /\ raised' = ""
        /\ UNCHANGED <<self, humanizer_vars, engine, info, passed,
                       seeded_vars, game_vars>>

\* A call of analyze(brd), raw being what engine.analyse returns.
AnalyzeCall ==
    /\ op = "init"
    /\ \E brd \in Boards, n \in 1..MaxMultiPV :
        \E shapes \in [1..n -> LineShapes], is_list \in {TRUE, n # 1} :
            LET raw == AnalyseResult(n, shapes, is_list, brd.turn)
                o == analyze(engine, brd, raw)
            IN  /\ op' = "analyze"
                /\ board' = brd
                /\ info' = o.info
                /\ ret' = o.ret
                /\ raised' = o.raised
                /\ UNCHANGED <<self, humanizer_vars, engine, pov, passed,
                               seeded_vars, game_vars>>

NextEngine ==
    \/ EngineStart
    \/ EngineQuit
    \/ ScoreToCentipawnsCall
    \/ AnalyzeCall
    \/ Discard

SpecEngine == InitEngine /\ [][NextEngine]_vars

-----------------------------------------------------------------------------
\* The Humanizer drawing from numpy's global generator

\* The generator has GeneratorStates states; a draw hands out a value that
\* is a function of the state and moves the generator to the next state.
GeneratorStates == 16

\* Arguments of np.random.seed (test_humanizer.py seeds with 42).
Seeds == {7, 42}

SeedKeepsState(s) == np_random

\* np.random.seed(s): the state of the generator is a function of s alone.
seed(s) == s % GeneratorStates

\* The state of the generator after one draw.
next_state(x) == (5 * x + 3) % GeneratorStates

\* The state of the generator after n draws.
RECURSIVE Advance(_, _)
Advance(x, n) == IF n = 0 THEN x ELSE Advance(next_state(x), n - 1)

\* The k-th smallest element of S, k = 0 for the smallest.
Nth(S, k) == CHOOSE v \in S : Cardinality({w \in S : w < v}) = k

\* np.random.normal(loc, scale) drawn in state x, in half centipawns:
\* loc + scale * (standard normal value of the state).
normal(loc, scale, x) ==
    IF scale = 0 THEN 2 * loc
    ELSE Nth(RawNormalDraws, x % Cardinality(RawNormalDraws))

\* np.random.choice(n, p = probabilities) drawn in state x (1-based): the
\* index is a function of the state and of the list the weights come from.
choice(n, x) == (x % n) + 1

\* The lists of the seeded runs: non-negative scores, moves 1, 2, ...
SeededLists ==
    {l \in CandidateLists :
        /\ \A i \in 1..Len(l) : l[i].score \in {0, 100, 200}
        /\ Len(l) > 0 => l[1].move = 1}

\* The values the generator hands out to select_move(evals) in state x: the
\* setpoint draw, then the weighted draw in the state that follows.
SeededDraw(this, x) ==
    normal(this.target_elo_advantage, this.elo_std_dev, x)

SeededIdx(this, evals, x) ==
    choice(Cardinality(SelectionRange(this, evals, SeededDraw(this, x))),
           next_state(x))

\* The process starts with the generator in a state taken from the
\* operating system's entropy.
InitSeeded ==
    /\ self \in {Humanizer(300, 100, 300, 5, 20), Humanizer(100, 100, 100, 5, 20)}
    /\ op = "init"
    /\ ret = None
    /\ raised = ""
    /\ HumanizerIdle
    /\ engine = FALSE
    /\ EngineIdle
    /\ np_random \in 0..(GeneratorStates - 1)
    /\ SeededIdle
    /\ GameIdle

\* np.random.seed(s)
NpRandomSeed ==
    /\ op = "init"
    /\ \E s \in Seeds :
        /\ np_random' = seed(s)
        /\ seeded' = Some(s)
    /\ UNCHANGED <<self, op, ret, raised, passed, humanizer_vars, engine_vars,
                   first_run, game_vars>>

\* A call of select_move(evals) that draws from the global generator.
SeededSelectMoveCall ==
    /\ op = "init"
    /\ \E evals \in SeededLists :
        LET o == select_move(self, evals, SeededDraw(self, np_random),
                             SeededIdx(self, evals, np_random))
        IN  /\ Returns("select_move", evals, SeededDraw(self, np_random), o)
            /\ np_random' = Advance(np_random,
                                    Len(o.setpoints) + Len(o.choices))
    /\ UNCHANGED <<seeded, first_run>>

\* A call of should_move(evals) that draws from the global generator.
SeededShouldMoveCall ==
    /\ op = "init"
    /\ \E evals \in SeededLists :
        LET o == should_move(self, evals, SeededDraw(self, np_random),
                             SeededIdx(self, evals, np_random))
        IN  /\ Returns("should_move", evals, SeededDraw(self, np_random), o)
            /\ np_random' = Advance(np_random,
                                    Len(o.setpoints) + Len(o.choices))
    /\ UNCHANGED <<seeded, first_run>>

\* The caller keeps the result of a call made right after np.random.seed
\* (the first run of a reproducibility test) and goes on.
KeepResult ==
    /\ op \in {"select_move", "should_move"}
    /\ seeded # Nothing
    /\ first_run = Nothing
    /\ first_run' = Some([op |-> op, seed |-> The(seeded),
                          evaluations |-> evaluations, ret |-> ret,
                          normal_draws |-> normal_draws, choices |-> choices])
    /\ op' = "init"
    /\ ret' = None
    /\ raised' = ""
    /\ evaluations' = <<>>
    /\ branch' = "not_called"
    /\ setpoints' = <<>>
    /\ acceptable_moves' = <<>>
    /\ choices' = <<>>
    /\ normal_draws' = <<>>
    /\ delays' = <<>>
    /\ slept' = <<>>
    /\ passed' = <<>>
    /\ seeded' = Nothing
    /\ UNCHANGED <<self, engine_vars, np_random, game_vars>>

NextSeeded ==
    \/ NpRandomSeed
    \/ SeededSelectMoveCall
    \/ SeededShouldMoveCall
    \/ KeepResult
    \/ Discard

SpecSeeded == InitSeeded /\ [][NextSeeded]_vars

-----------------------------------------------------------------------------
\* The GameController

\* Plies the page can show before the game is left.
MaxPlies == 3

\* time.sleep arguments of run, in tenths of a second (0.5, 1 and 2 s).
IterationSleep == 5
RetrySleep == 10
ErrorSleep == 20

\* BoardParser.parse_board: a new chess.Board, cleared (no pieces, empty
\* move stack, White to move), on which the pieces found in the DOM are
\* set; when reading the DOM fails, the board is reset to the starting
\* position.  position identifies the placement by the plies that led to
\* it; game_over is what chess.Board.is_game_over says about the placement.
parse_board(plies, dom_ok, game_over) ==
    [turn |-> WHITE, is_game_over |-> game_over,
     position |-> IF dom_ok THEN plies ELSE 0, move_stack |-> <<>>]

\* GameController._is_our_turn: the value returned and last_move_count
\* afterwards.
_is_our_turn(last, brd) ==
    LET current_move_count == Len(brd.move_stack)
    IN  IF current_move_count # last
        THEN [ret |-> TRUE, last_move_count |-> current_move_count]
        ELSE [ret |-> FALSE, last_move_count |-> last]

\* GameController._detect_game_over
_detect_game_over(brd) == brd.is_game_over

\* Something the controller did: a call it made, with its argument or result.
Event(kind, arg) == [kind |-> kind, arg |-> arg]

\* chess.Board.push
push(brd, move) == [brd EXCEPT !.move_stack = Append(@, move)]

\* The info dictionaries of the analyses _make_move asks for.
GameLineShapes ==
    {<<"pv", Some(Cp(150))>>, <<"pv", Some(Mate(1))>>, <<"no_pv", Nothing>>}

\* The outcome of one call of _make_move: what the calls it made recorded,
\* the events in order, the board argument afterwards and the moves that
\* were played on the page.
MakeMoveOutcome(a, p, d, ev, brd, played) ==
    [raised |-> a.raised, info |-> a.info, evaluations |-> a.ret,
     branch |-> p.branch, setpoints |-> p.setpoints,
     acceptable_moves |-> p.acceptable_moves, choices |-> p.choices,
     delays |-> d.delays, slept |-> d.slept,
     events |-> ev, board |-> brd, played |-> played]

\* The events of one call of add_realistic_delay.
DelayEvents(d) ==
    [i \in 1..Len(d.delays) |-> Event("uniform", d.delays[i])] \o
    [i \in 1..Len(d.slept) |-> Event("sleep", d.slept[i])]

MakeMoveExecutesBeforeDelay(eng, this, brd, raw, draw, selected_idx, k) ==
    LET a == analyze(eng, brd, raw)
        p == should_move(this, a.ret, draw, selected_idx)
        d == add_realistic_delay(this, k)
        no_p == Outcome(None, "not_called", <<>>, <<>>, <<>>, "")
        no_d == DelayOutcome(None, <<>>, <<>>)
        analysed == <<Event("analyze", Len(a.ret))>>
        decided == analysed \o <<Event("should_move", p.ret)>>
    IN  IF a.raised # "" THEN MakeMoveOutcome(a, no_p, no_d, <<>>, brd, 0)
        ELSE IF Len(a.ret) = 0
        THEN MakeMoveOutcome(a, no_p, no_d, analysed, brd, 0)
        ELSE IF ~p.ret[1] \/ p.ret[2] = None
        THEN MakeMoveOutcome(a, p, no_d, decided, brd, 0)
        ELSE MakeMoveOutcome(a, p, d,
                decided \o <<Event("execute_move", p.ret[2])>>
                        \o DelayEvents(d)
                        \o <<Event("push", p.ret[2])>>,
                push(brd, p.ret[2]), 1)

\* GameController._make_move(brd): raw is what engine.analyse returns, draw
\* and selected_idx what np.random hands out to should_move, k / RandomSteps
\* what random.random hands out to add_realistic_delay.
_make_move(eng, this, brd, raw, draw, selected_idx, k) ==
    LET a == analyze(eng, brd, raw)
        p == should_move(this, a.ret, draw, selected_idx)
        d == add_realistic_delay(this, k)
        no_p == Outcome(None, "not_called", <<>>, <<>>, <<>>, "")
        no_d == DelayOutcome(None, <<>>, <<>>)
        analysed == <<Event("analyze", Len(a.ret))>>
        decided == analysed \o <<Event("should_move", p.ret)>>
    IN  IF a.raised # "" THEN MakeMoveOutcome(a, no_p, no_d, <<>>, brd, 0)
        ELSE IF Len(a.ret) = 0
        THEN MakeMoveOutcome(a, no_p, no_d, analysed, brd, 0)
        ELSE IF ~p.ret[1] \/ p.ret[2] = None
        THEN MakeMoveOutcome(a, p, no_d, decided, brd, 0)
        ELSE MakeMoveOutcome(a, p, d,
                decided \o DelayEvents(d)
                        \o <<Event("execute_move", p.ret[2]),
                             Event("push", p.ret[2])>>,
                push(brd, p.ret[2]), 1)

\* The controller of main.py: the Humanizer has the Config defaults, or no
\* spread of the setpoint.
InitGame ==
    /\ self \in {Humanizer(300, 100, 300, 5, 20), Humanizer(300, 0, 300, 5, 20)}
    /\ op = "init"
    /\ ret = None
    /\ raised = ""
    /\ HumanizerIdle
    /\ engine = FALSE
    /\ EngineIdle
    /\ np_random = 0
    /\ SeededIdle
    /\ GameIdle

\* run up to the loop: the engine is started; when the board element is not
\* found run returns and the finally clause stops the engine.
RunStart ==
    /\ op = "init"
    /\ pc = "constructed"
    /\ \E found \in BOOLEAN :
        /\ pc' = IF found THEN "loop" ELSE "stopped"
        /\ engine' = found
    /\ UNCHANGED <<self, op, ret, raised, passed, humanizer_vars, board, pov,
                   info, seeded_vars, page, current_board, last_move_count,
                   events>>

\* The state after _make_move(brd) has run, followed by the sleeps in after.
MakeMoveEffects(brd, after) ==
    \E n \in 1..MaxMultiPV :
      \E shapes \in [1..n -> GameLineShapes], is_list \in {TRUE, n # 1} :
        \E draw \in NormalDraws(self.target_elo_advantage, self.elo_std_dev) :
          \E k \in 0..RandomSteps :
            LET raw == AnalyseResult(n, shapes, is_list, brd.turn)
                evals == analyze(engine, brd, raw).ret
            IN  \E selected_idx \in SelectionRange(self, evals, draw) :
                  \E o \in {_make_move(engine, self, brd, raw, draw,
                                        selected_idx, k)} :
                      /\ board' = Board(brd.turn, brd.is_game_over)
                      /\ info' = o.info
                      /\ evaluations' = o.evaluations
                      /\ passed' = o.evaluations
                      /\ raised' = o.raised
                      /\ branch' = o.branch
                      /\ setpoints' = o.setpoints
                      /\ acceptable_moves' = o.acceptable_moves
                      /\ choices' = o.choices
                      /\ normal_draws' = [i \in 1..Len(o.setpoints) |-> draw]
                      /\ delays' = o.delays
                      /\ slept' = o.slept
                      /\ events' = o.events \o
                                   (IF o.raised = "" THEN after
                                    ELSE <<Event("sleep", ErrorSleep)>>)
                      /\ current_board' = Some(o.board)
                      /\ page' = page + o.played

\* A call of _make_move(self.current_board) while the loop runs, as line 207
\* makes it.
MakeMoveCall ==
    /\ op = "init"
    /\ pc = "loop"
    /\ page < MaxPlies
    /\ current_board # Nothing
    /\ op' = "_make_move"
    /\ ret' = None
    /\ MakeMoveEffects(The(current_board), <<>>)
    /\ UNCHANGED <<self, engine, pov, seeded_vars, pc, last_move_count>>

\* One iteration of the loop of run.
RunIteration ==
    /\ op = "init"
    /\ pc = "loop"
    /\ page < MaxPlies
    /\ op' = "run"
    /\ ret' = None
    /\ \E found \in BOOLEAN, dom_ok \in BOOLEAN, game_over \in BOOLEAN :
        LET brd == parse_board(page, dom_ok, game_over)
            turn == _is_our_turn(last_move_count, brd)
        IN  IF ~found
            THEN /\ events' = <<Event("sleep", RetrySleep)>>
                 /\ UNCHANGED <<raised, passed, humanizer_vars, engine_vars,
                                pc, page, current_board, last_move_count>>
            ELSE IF _detect_game_over(brd)
            THEN /\ current_board' = Some(brd)
                 /\ pc' = "stopped"
                 /\ engine' = FALSE
                 /\ events' = <<>>
                 /\ UNCHANGED <<raised, passed, humanizer_vars, board, pov,
                                info, page, last_move_count>>
            ELSE IF turn.ret
            THEN /\ last_move_count' = turn.last_move_count
                 /\ MakeMoveEffects(brd, <<Event("sleep", IterationSleep)>>)
                 /\ UNCHANGED <<engine, pov, pc>>
            ELSE /\ current_board' = Some(brd)
                 /\ last_move_count' = turn.last_move_count
                 /\ events' = <<Event("sleep", IterationSleep)>>
                 /\ UNCHANGED <<raised, passed, humanizer_vars, engine_vars,
                                pc, page>>
    /\ UNCHANGED <<self, seeded_vars>>

\* The opponent plays a move: the page shows the next position.
OpponentMoves ==
    /\ op = "init"
    /\ pc = "loop"
    /\ page < MaxPlies
    /\ page' = page + 1
    /\ UNCHANGED <<self, op, ret, raised, passed, humanizer_vars, engine_vars,
                   seeded_vars, pc, current_board, last_move_count, events>>

\* KeyboardInterrupt in the loop: break, then the finally clause.
KeyboardInterrupt ==
    /\ op = "init"
    /\ pc = "loop"
    /\ pc' = "stopped"
    /\ engine' = FALSE
    /\ UNCHANGED <<self, op, ret, raised, passed, humanizer_vars, board, pov,
                   info, seeded_vars, page, current_board, last_move_count,
                   events>>

NextGame ==
    \/ RunStart
    \/ RunIteration
    \/ MakeMoveCall
    \/ OpponentMoves
    \/ KeyboardInterrupt
    \/ Discard

SpecGame == InitGame /\ [][NextGame]_vars

-----------------------------------------------------------------------------
\* Properties

\* The candidate satisfies the acceptance condition of select_move for the
\* setpoint sp: its score reaches the setpoint, or it is less than
\* elo_std_dev below the best score.
MeetsCriteria(c, best, sp) ==
    c.score >= sp \/ best.score - c.score < self.elo_std_dev

\* The call select_move(evaluations) has gone past the obvious-move return.
NonObviousSelect ==
    /\ op = "select_move"
    /\ Len(evaluations) > 0
    /\ ~_is_obvious_move(self, evaluations)

\* C1: for every non-empty candidate list should_move returns (True, m)
\* with m the move of one of the candidates of the list; it never returns
\* None and never a move that is not in the list.
C1_ShouldMoveReturnsCandidate ==
    (op = "should_move" /\ Len(evaluations) > 0) =>
        /\ raised = ""
        /\ ret[1] = TRUE
        /\ ret[2] # None
        /\ \E i \in 1..Len(evaluations) : evaluations[i].move = ret[2]

\* A should_move call whose weighted draw picked a candidate other than the
\* best one.
C1_Witness ==
    /\ op = "should_move"
    /\ branch = "weighted"
    /\ ret[1] = TRUE
    /\ ret[2] # evaluations[1].move
    /\ \E i \in 2..Len(evaluations) : evaluations[i].move = ret[2]

\* C2: for the empty candidate list select_move returns None and
\* should_move returns (False, None), without raising and without drawing
\* a random number.
C2_EmptyListNothingToDo ==
    /\ (op = "select_move" /\ evaluations = <<>>) =>
            (ret = None /\ raised = "" /\ setpoints = <<>> /\ choices = <<>>)
    /\ (op = "should_move" /\ evaluations = <<>>) =>
            (ret = <<FALSE, None>> /\ raised = "" /\ setpoints = <<>>
             /\ choices = <<>>)

\* should_move([]) has returned (False, None).
C2_Witness ==
    /\ op = "should_move"
    /\ evaluations = <<>>
    /\ ret = <<FALSE, None>>
    /\ branch = "not_called"

\* C3: whenever the obvious-move detector is true of a non-empty candidate
\* list, select_move returns the move of the first candidate, with no
\* setpoint draw and no weighted draw.
C3_ObviousPlaysBest ==
    (op = "select_move" /\ Len(evaluations) > 0
        /\ _is_obvious_move(self, evaluations)) =>
        /\ ret = evaluations[1].move
        /\ setpoints = <<>>
        /\ choices = <<>>

\* select_move on an obvious list with an alternative has returned the best.
C3_Witness ==
    /\ op = "select_move"
    /\ Len(evaluations) >= 2
    /\ branch = "obvious"
    /\ ret = evaluations[1].move
    /\ setpoints = <<>>

\* C4: with at least two candidates, best.score - second.score >
\* obvious_move_threshold makes _is_obvious_move return True.
C4_LargeGapIsObvious ==
    (op = "_is_obvious_move" /\ Len(evaluations) >= 2
        /\ evaluations[1].score - evaluations[2].score
              > self.obvious_move_threshold) =>
        ret = TRUE

\* The gap rule alone applies: the second score is not below -threshold.
C4_Witness ==
    /\ op = "_is_obvious_move"
    /\ Len(evaluations) >= 2
    /\ evaluations[1].score - evaluations[2].score
          > self.obvious_move_threshold
    /\ evaluations[2].score >= -self.obvious_move_threshold
    /\ ret = TRUE

\* C5: with at least two candidates, second.score < -obvious_move_threshold
\* makes _is_obvious_move return True, also when the gap does not exceed the
\* threshold.
C5_BlunderAvoidanceIsObvious ==
    (op = "_is_obvious_move" /\ Len(evaluations) >= 2
        /\ evaluations[2].score < -self.obvious_move_threshold) =>
        ret = TRUE

\* The blunder rule alone applies: the gap does not exceed the threshold.
C5_Witness ==
    /\ op = "_is_obvious_move"
    /\ Len(evaluations) >= 2
    /\ evaluations[2].score < -self.obvious_move_threshold
    /\ evaluations[1].score - evaluations[2].score
          <= self.obvious_move_threshold
    /\ ret = TRUE

\* C6: for a list of exactly one candidate _is_obvious_move returns True,
\* whatever the score and the threshold.
C6_SingletonIsObvious ==
    (op = "_is_obvious_move" /\ Len(evaluations) = 1) => ret = TRUE

\* A single candidate that is a mate against the mover.
C6_Witness ==
    /\ op = "_is_obvious_move"
    /\ Len(evaluations) = 1
    /\ evaluations[1].score < -self.obvious_move_threshold
    /\ ret = TRUE

\* C7: with at least two candidates, gap <= threshold and second >=
\* -threshold make _is_obvious_move return False; and the result is the same
\* for every list with the same first two entries.
C7_OtherwiseNotObvious ==
    (op = "_is_obvious_move" /\ Len(evaluations) >= 2) =>
        /\ (/\ evaluations[1].score - evaluations[2].score
                  <= self.obvious_move_threshold
            /\ evaluations[2].score >= -self.obvious_move_threshold)
                => ret = FALSE
        /\ \A other \in CandidateLists :
              (/\ Len(other) >= 2
               /\ other[1] = evaluations[1]
               /\ other[2] = evaluations[2])
                => _is_obvious_move(self, other) = ret

\* Both boundaries at once, with a third entry that is far below.
C7_Witness ==
    /\ op = "_is_obvious_move"
    /\ Len(evaluations) >= 3
    /\ evaluations[1].score - evaluations[2].score
          = self.obvious_move_threshold
    /\ evaluations[2].score = -self.obvious_move_threshold
    /\ evaluations[3].score < -self.obvious_move_threshold
    /\ ret = FALSE

\* C8: in the non-obvious branch with a non-empty acceptable subset, the
\* returned move is the move of a candidate c with c.score >= setpoint or
\* best.score - c.score < elo_std_dev; a candidate failing both is never
\* returned.
C8_ReturnedMoveIsAcceptable ==
    (NonObviousSelect /\ Len(acceptable_moves) > 0) =>
        /\ \E i \in 1..Len(evaluations) : evaluations[i].move = ret
        /\ \A i \in 1..Len(evaluations) :
              evaluations[i].move = ret =>
                  MeetsCriteria(evaluations[i], evaluations[1], setpoints[1])

\* A weighted draw that returned a candidate other than the best while some
\* candidate of the list fails both conditions.
C8_Witness ==
    /\ NonObviousSelect
    /\ branch = "weighted"
    /\ ret # evaluations[1].move
    /\ \E i \in 1..Len(evaluations) :
          ~MeetsCriteria(evaluations[i], evaluations[1], setpoints[1])

\* C9 as stated: in the non-obvious branch the acceptable subset contains
\* the best candidate for every setpoint, list and elo_std_dev.
C9_AcceptableAlwaysHasBest ==
    NonObviousSelect =>
        /\ Len(acceptable_moves) > 0
        /\ acceptable_moves[1] = evaluations[1]

\* C9 amended: in the non-obvious branch the acceptable subset contains the
\* best candidate whenever elo_std_dev > 0 or best.score >= setpoint.
C9_AcceptableHasBestUnlessDegenerate ==
    (NonObviousSelect
        /\ (self.elo_std_dev > 0 \/ evaluations[1].score >= setpoints[1])) =>
        /\ Len(acceptable_moves) > 0
        /\ acceptable_moves[1] = evaluations[1]

\* The best candidate is below the setpoint and is kept by the second clause.
C9_Witness ==
    /\ NonObviousSelect
    /\ self.elo_std_dev > 0
    /\ evaluations[1].score < setpoints[1]
    /\ Len(acceptable_moves) > 0
    /\ acceptable_moves[1] = evaluations[1]

\* C10: if no candidate is acceptable, select_move does not fail: it returns
\* the move of the first candidate without the weighted draw.
C10_EmptyAcceptableFallsBack ==
    (NonObviousSelect
        /\ \A i \in 1..Len(evaluations) :
              ~MeetsCriteria(evaluations[i], evaluations[1], setpoints[1])) =>
        /\ raised = ""
        /\ ret = evaluations[1].move
        /\ choices = <<>>

\* elo_std_dev = 0 and every candidate below the setpoint.
C10_Witness ==
    /\ NonObviousSelect
    /\ Len(evaluations) >= 2
    /\ self.elo_std_dev = 0
    /\ evaluations[1].score < setpoints[1]
    /\ acceptable_moves = <<>>
    /\ branch = "fallback"
    /\ ret = evaluations[1].move

\* C11: every setpoint _sample_cp_setpoint returns is max(int(draw), 0):
\* never negative, 0 for every negative draw, the draw truncated otherwise
\* (draws are in half centipawns).
C11_SetpointNeverNegative ==
    /\ \A i \in 1..Len(setpoints) :
          /\ setpoints[i] >= 0
          /\ normal_draws[i] < 0 => setpoints[i] = 0
          /\ normal_draws[i] >= 0 =>
                (/\ 2 * setpoints[i] <= normal_draws[i]
                 /\ normal_draws[i] < 2 * setpoints[i] + 2)
    /\ op = "_sample_cp_setpoint" => (Len(setpoints) = 1 /\ ret = setpoints[1])

\* A draw below -1/2 has been clamped to 0.
C11_Witness ==
    /\ op = "_sample_cp_setpoint"
    /\ normal_draws[1] < -1
    /\ ret = 0

\* The mate distance or centipawn value of the score argument, from White's
\* perspective.
WhiteValue ==
    IF pov.turn = WHITE THEN pov.relative.value ELSE -pov.relative.value

\* The call _score_to_centipawns(pov, board) was given a mate score with a
\* distance that is not 0.
MateCall ==
    /\ op = "_score_to_centipawns"
    /\ pov.relative.is_mate
    /\ WhiteValue # 0

\* The side to move is the side that delivers the mate.
MoverDeliversMate == (WhiteValue > 0) <=> (board.turn = WHITE)

Abs(x) == IF x >= 0 THEN x ELSE -x

\* C12: for a mate distance m # 0 from White's perspective the score is
\* 10000 - 100 m (m > 0) or -10000 - 100 m (m < 0) when White is to move and
\* the negation when Black is to move; a centipawn score c gives c when
\* White is to move and -c when Black is to move, is_mate False, mate_in
\* None.
C12_MoverRelativeEncoding ==
    /\ MateCall =>
          LET m == WhiteValue
              cp == IF m > 0 THEN 10000 - 100 * m ELSE -10000 - 100 * m
          IN  /\ ret[1] = (IF board.turn = WHITE THEN cp ELSE -cp)
              /\ ret[2] = TRUE
    /\ (op = "_score_to_centipawns" /\ ~pov.relative.is_mate) =>
          /\ ret[1] = (IF board.turn = WHITE THEN WhiteValue ELSE -WhiteValue)
          /\ ret[2] = FALSE
          /\ ret[3] = Nothing

\* Black is to move and mates: the score is the negated encoding.
C12_Witness ==
    /\ MateCall
    /\ board.turn = BLACK
    /\ WhiteValue = -1
    /\ ret[1] = 9900

\* C13: the stored mate_in is mover-relative: it is positive exactly when the
\* side to move delivers the mate and negative exactly when the side to move
\* is being mated.
C13_MateInMoverRelative ==
    MateCall =>
        /\ ret[3] # Nothing
        /\ \A mate_in \in ret[3] : (mate_in > 0) <=> MoverDeliversMate

\* C14: for every mate distance m # 0 and either side to move, the score is
\* positive exactly when the side to move delivers the mate, and its
\* magnitude exceeds 9000.
C14_MateOutranksNonMate ==
    MateCall =>
        /\ (ret[1] > 0) <=> MoverDeliversMate
        /\ Abs(ret[1]) > 9000

\* C15: for same-sign mate distances m, m2 with |m| < |m2| the magnitude of
\* the score of m exceeds the magnitude of the score of m2, for either side
\* to move.
C15_MateEncodingMonotone ==
    MateCall =>
        \A m2 \in MateDistances :
            (/\ (m2 > 0) <=> (pov.relative.value > 0)
             /\ Abs(pov.relative.value) < Abs(m2)) =>
                Abs(ret[1]) >
                    Abs(_score_to_centipawns(PovScore(Mate(m2), pov.turn),
                                             board)[1])

\* C16 as stated: evaluating a terminal position fails with an error and
\* yields no score, in analyze and in the normalizer (mate distance 0).
C16_TerminalPositionFails ==
    /\ (op = "analyze" /\ engine /\ board.is_game_over) => raised # ""
    /\ (op = "_score_to_centipawns" /\ pov.relative.is_mate
            /\ pov.relative.value = 0) => raised # ""

\* C16 amended: analyze on a terminal position, the engine being started,
\* returns the empty list without raising and without running the engine or
\* the normalizer.
C16_TerminalPositionGivesEmptyList ==
    (op = "analyze" /\ engine /\ board.is_game_over) =>
        /\ ret = <<>>
        /\ raised = ""
        /\ info = Nothing

\* analyze has returned [] for a position that is over.
C16_Witness ==
    /\ op = "analyze"
    /\ engine
    /\ board.is_game_over
    /\ ret = <<>>
    /\ raised = ""

\* The info dictionary has a non-empty principal variation and a score.
HasMoveAndScore(pv_info) ==
    /\ pv_info.pv # Nothing
    /\ pv_info.score # Nothing
    /\ \A pv \in pv_info.pv : Len(pv) > 0

\* C17: the list analyze returns is ordered by non-increasing score, so its
\* first element carries the maximum; it has exactly one entry per info
\* dictionary that has a non-empty principal variation and a score, the
\* others are omitted.
C17_AnalyzeSortedBestFirst ==
    (op = "analyze" /\ raised = "") =>
        /\ \A i \in 1..(Len(ret) - 1) : ret[i].score >= ret[i + 1].score
        /\ \A i \in 1..Len(ret) : ret[1].score >= ret[i].score
        /\ \A raw \in info :
              LET usable == {i \in 1..Len(raw.dicts) :
                                HasMoveAndScore(raw.dicts[i])}
              IN  /\ Len(ret) = Cardinality(usable)
                  /\ \A i \in usable :
                        \E j \in 1..Len(ret) :
                            ret[j].move = The(raw.dicts[i].pv)[1]

\* Black to move, a mate and a centipawn score, the engine's order is not the
\* sorted order and one line is omitted.
C17_Witness ==
    /\ op = "analyze"
    /\ raised = ""
    /\ board.turn = BLACK
    /\ Len(ret) = 2
    /\ ret[1].is_mate /\ ~ret[2].is_mate
    /\ ret[1].score > ret[2].score
    /\ ret[1].move > ret[2].move
    /\ \E raw \in info : Len(raw.dicts) > Len(ret)

\* C18: whenever min_move_time <= max_move_time, every delay sampled by
\* add_realistic_delay lies in [min_move_time, max_move_time].
C18_DelayWithinBounds ==
    (op = "add_realistic_delay"
        /\ self.min_move_time <= self.max_move_time) =>
        \A i \in 1..Len(delays) :
            /\ self.min_move_time <= delays[i]
            /\ delays[i] <= self.max_move_time

\* A delay strictly inside the interval.
C18_Witness ==
    /\ op = "add_realistic_delay"
    /\ Len(delays) = 1
    /\ self.min_move_time < delays[1]
    /\ delays[1] < self.max_move_time

\* C19 as stated: the timing operation only samples and returns the delay;
\* it does not sleep.
C19_DelayReturnedNotSlept ==
    op = "add_realistic_delay" =>
        /\ slept = <<>>
        /\ Len(delays) = 1
        /\ ret = delays[1]

\* C19 amended: add_realistic_delay samples one delay, sleeps once for
\* exactly that duration and returns None.
C19_DelaySleptOnce ==
    op = "add_realistic_delay" =>
        /\ Len(delays) = 1
        /\ slept = delays
        /\ ret = None
        /\ raised = ""

\* add_realistic_delay has slept for the longest delay.
C19_Witness ==
    /\ op = "add_realistic_delay"
    /\ self.min_move_time < self.max_move_time
    /\ slept = <<self.max_move_time>>
    /\ ret = None

\* C20: with min_move_time > max_move_time, sampling a delay fails; no delay
\* is produced.
C20_InvertedBoundsRejected ==
    (op = "add_realistic_delay"
        /\ self.min_move_time > self.max_move_time) =>
        /\ raised # ""
        /\ delays = <<>>
        /\ slept = <<>>

RecordedDraw == IF Len(normal_draws) = 0 THEN 0 ELSE normal_draws[1]
RecordedIdx == IF Len(choices) = 0 THEN 1 ELSE choices[1]

\* C22: the policy keeps no state between decisions: no step changes one of
\* the five configuration fields; a call of _is_obvious_move, select_move or
\* should_move leaves the list it was passed as it was (order, moves and
\* scores); and after any sequence of earlier calls what the call returns is
\* what its argument, the configuration and its own draws determine.
C22_NoStateBetweenDecisions ==
    [][/\ self' = self
       /\ (op = "init" /\ op' \in {"_is_obvious_move", "select_move", "should_move"})
            => /\ evaluations' = passed'
               /\ op' = "_is_obvious_move"
                    => ret' = _is_obvious_move(self, passed')
               /\ op' = "select_move"
                    => ret' = select_move(self, passed', RecordedDraw',
                                          RecordedIdx').ret
               /\ op' = "should_move"
                    => ret' = should_move(self, passed', RecordedDraw',
                                          RecordedIdx').ret]_vars

\* select_move has drawn a setpoint, narrowed a list of several candidates
\* to fewer acceptable ones and drawn among them; the list it was passed and
\* the configuration are as before.
C22_Witness ==
    /\ op = "select_move"
    /\ branch = "weighted"
    /\ Len(passed) >= 2
    /\ Len(acceptable_moves) < Len(passed)
    /\ evaluations = passed
    /\ self \in {Humanizer(t, d, o, mn, mx) :
                    t \in TargetEloAdvantages, d \in EloStdDevs,
                    o \in ObviousMoveThresholds,
                    mn \in MinMoveTimes, mx \in MaxMoveTimes}

\* The moves should_move returned with True during the call.
Chosen ==
    {events[i].arg[2] : i \in {j \in 1..Len(events) :
                                  /\ events[j].kind = "should_move"
                                  /\ events[j].arg[1]
                                  /\ events[j].arg[2] # None}}

\* The events of the given kinds, in order.
EventsOf(kinds) == SelectSeq(events, LAMBDA e : e.kind \in kinds)

\* C23: in _make_move a delay is sampled exactly when a move is chosen: when
\* should_move returns a move m, one delay d is sampled and slept after the
\* selection and before execute_move(m), which is followed by board.push(m);
\* when the analysis is empty or no move is returned, nothing is sampled or
\* slept, execute_move is not called and the board is not advanced.
C23_DelayExactlyWhenMoveChosen ==
    [][op' = "_make_move" =>
        IF Chosen' # {}
        THEN \E m \in Chosen' :
                \E d \in self.min_move_time..max(self.min_move_time, self.max_move_time) :
                    /\ EventsOf({"should_move", "uniform", "sleep",
                                 "execute_move", "push"})'
                         = <<Event("should_move", <<TRUE, m>>),
                             Event("uniform", d), Event("sleep", d),
                             Event("execute_move", m), Event("push", m)>>
                    /\ delays' = <<d>>
                    /\ slept' = <<d>>
        ELSE /\ EventsOf({"uniform", "sleep", "execute_move", "push"})' = <<>>
             /\ delays' = <<>>
             /\ slept' = <<>>
             /\ current_board' = current_board
             /\ page' = page]_vars

\* _make_move has analysed a position with several candidates, the policy
\* has drawn one of them, and the delay, the execution and the push followed.
C23_Witness ==
    /\ op = "_make_move"
    /\ branch = "weighted"
    /\ Len(evaluations) >= 2
    /\ Chosen # {}
    /\ Len(slept) = 1
    /\ Len(events) = 6
    /\ events[6].kind = "push"

\* C24: while the game is not over, an iteration of the loop that parses a
\* position different from the one the iteration before parsed (the opponent
\* has moved) calls _make_move, and an iteration that parses the same
\* position does not.
C24_OpponentMoveTriggersMakeMove ==
    [][(/\ op = "init" /\ op' = "run"
        /\ pc = "loop" /\ pc' = "loop"
        /\ current_board # Nothing /\ current_board' # Nothing)
          => LET before == The(current_board).position
                 now == The(current_board').position
                 called == \E i \in 1..Len(events') :
                              events'[i].kind = "analyze"
             IN  (now # before) <=> called]_vars

====
